---- MODULE Spec2Model ----
(***************************************************************************)
(* Verification model of four fragments of the engine:                     *)
(*   - AZStd::static_storage<T>      (src/unnamed/part_001)                *)
(*   - EMStudio::AnimGraphOptions    (src/unnamed/part_002)                *)
(*   - AZ::PackedVector3<TYPE>       (src/unnamed/part_000)                *)
(*   - ScriptCanvas::RuntimeAssetHandler (RuntimeAssetHandler.cpp)         *)
(* Each fragment has its own specification over its own variables; the     *)
(* variables of the other fragments stay at their initial values.          *)
(***************************************************************************)
EXTENDS Integers, Sequences, FiniteSets, TLC

VARIABLES
    \* ---- static_storage<T> ----
    m_object,     \* AZStd::atomic<T*> m_object
    m_storage,    \* what the aligned storage holds: "raw", "constructing", "alive", "destroyed"
    ctorPc,       \* position of static_storage::static_storage
    ctorCalls,    \* number of invocations of T's constructor
    dtorCalls,    \* number of invocations of Destructor()(T*)
    rpc,          \* position of each thread inside operator T&
    obj,          \* the local T* obj of each thread inside operator T&
    retState,     \* what m_storage held when operator T& returned *obj
    lateEntry,    \* history: the call of operator T& started after a successful CAS
    tpc,          \* position of each ~static_storage attempt
    torn,         \* history: some ~static_storage has won its compare_exchange_strong
    \* ---- AnimGraphOptions ----
    options,      \* the AnimGraphOptions object the setters are called on
    loaded,       \* the object returned by the last AnimGraphOptions::Load
    bus,          \* the events sent on PluginOptionsNotificationsBus, in order
    settings,     \* the QSettings store: its key/value map and the accesses of the last call
    lastSaved,    \* history: the values of options at the last Save
    lastCall,     \* history: the last call, its argument and the state before it
    \* ---- PackedVector3<TYPE> ----
    TYPE,         \* the template argument: "float" (PackedVector3f) or "int32" (PackedVector3i)
    vec,          \* the AZ::Vector3 the PackedVector3 is constructed from
    packed,       \* the PackedVector3: m_x, m_y, m_z
    back,         \* the AZ::Vector3 produced by operator AZ::Vector3()
    got,          \* the values GetX(), GetY(), GetZ() returned
    \* ---- RuntimeAssetHandler ----
    m_serializeContext,  \* RuntimeAssetHandler::m_serializeContext
    assetData,    \* the data each asset holds (RuntimeAsset::m_runtimeData for the runtime asset)
    stream,       \* the AZ::IO::GenericStream handed to the handler: content, position, operations of the last call
    assetCall     \* history: the last handler call, its inputs, what it did and returned

storageVars == <<m_object, m_storage, ctorPc, ctorCalls, dtorCalls, rpc, obj,
                 retState, lateEntry, tpc, torn>>

optionsVars == <<options, loaded, bus, settings, lastSaved, lastCall>>

vecVars == <<TYPE, vec, packed, back, got>>

assetVars == <<m_serializeContext, assetData, stream, assetCall>>

notStorageVars == <<optionsVars, vecVars, assetVars>>
notOptionsVars == <<storageVars, vecVars, assetVars>>
notVecVars == <<storageVars, optionsVars, assetVars>>
notAssetVars == <<storageVars, optionsVars, vecVars>>

vars == <<storageVars, optionsVars, vecVars, assetVars>>

-----------------------------------------------------------------------------
(* static_storage<T, Destructor = default_destruct<T>>                      *)

NumReaders == 2
NumTeardowns == 2

Readers == 1..NumReaders
Teardowns == 1..NumTeardowns

\* Pointer values: nullptr, reinterpret_cast<T*>(&m_storage), any other address.
Null == "nullptr"
StorageAddr == "&m_storage"
OtherAddr == "other"
Pointers == {Null, StorageAddr, OtherAddr}

\* m_object has no initializer (and the constructor's comment says so): the
\* value it holds before the constructor's store is indeterminate.
UninitializedPointer == Pointers

StorageInit ==
    /\ m_object \in UninitializedPointer
    /\ m_storage = "raw"
    /\ ctorPc = "start"
    /\ ctorCalls = 0
    /\ dtorCalls = 0
    /\ rpc = [r \in Readers |-> "idle"]
    /\ obj = [r \in Readers |-> Null]
    /\ retState = [r \in Readers |-> "none"]
    /\ lateEntry = [r \in Readers |-> FALSE]
    /\ tpc = [t \in Teardowns |-> "idle"]
    /\ torn = FALSE

\* The state of this fragment while another fragment's specification runs.
StorageIdle ==
    /\ m_object = Null
    /\ m_storage = "raw"
    /\ ctorPc = "start"
    /\ ctorCalls = 0
    /\ dtorCalls = 0
    /\ rpc = [r \in Readers |-> "idle"]
    /\ obj = [r \in Readers |-> Null]
    /\ retState = [r \in Readers |-> "none"]
    /\ lateEntry = [r \in Readers |-> FALSE]
    /\ tpc = [t \in Teardowns |-> "idle"]
    /\ torn = FALSE

\* static_storage(Args&&...): new (&m_storage) T(args...) starts running T's constructor.
CtorPlacementNew ==
    /\ ctorPc = "start"
    /\ ctorPc' = "constructing"
    /\ m_storage' = "constructing"
    /\ ctorCalls' = ctorCalls + 1
    /\ UNCHANGED <<m_object, dtorCalls, rpc, obj, retState, lateEntry, tpc, torn>>
    /\ UNCHANGED notStorageVars

\* T's constructor returns: the storage holds a fully constructed T.
CtorConstructed ==
    /\ ctorPc = "constructing"
    /\ ctorPc' = "store"
    /\ m_storage' = "alive"
    /\ UNCHANGED <<m_object, ctorCalls, dtorCalls, rpc, obj, retState, lateEntry, tpc, torn>>
    /\ UNCHANGED notStorageVars

\* m_object.store(<the pointer placement new returned>)
CtorStore ==
    /\ ctorPc = "store"
    /\ ctorPc' = "done"
    /\ m_object' = StorageAddr
    /\ UNCHANGED <<m_storage, ctorCalls, dtorCalls, rpc, obj, retState, lateEntry, tpc, torn>>
    /\ UNCHANGED notStorageVars

\* operator T&(): T* obj = nullptr;
ReaderEnter(r) ==
    /\ rpc[r] = "idle"
    /\ rpc' = [rpc EXCEPT ![r] = "load"]
    /\ obj' = [obj EXCEPT ![r] = Null]
    /\ lateEntry' = [lateEntry EXCEPT ![r] = torn]
    /\ UNCHANGED <<m_object, m_storage, ctorPc, ctorCalls, dtorCalls, retState, tpc, torn>>
    /\ UNCHANGED notStorageVars

\* A reader that lazily constructs on seeing nullptr (double construction).
ReaderLoad_LazyConstruct(r) ==
    /\ rpc[r] = "load"
    /\ rpc' = [rpc EXCEPT ![r] = "test"]
    /\ IF m_object = Null
         THEN /\ m_object' = StorageAddr
              /\ m_storage' = "alive"
              /\ ctorCalls' = ctorCalls + 1
              /\ obj' = [obj EXCEPT ![r] = StorageAddr]
         ELSE /\ obj' = [obj EXCEPT ![r] = m_object]
              /\ UNCHANGED <<m_object, m_storage, ctorCalls>>
    /\ UNCHANGED <<ctorPc, dtorCalls, retState, lateEntry, tpc, torn>>
    /\ UNCHANGED notStorageVars

\* do { obj = m_object.load();
ReaderLoad(r) ==
    /\ rpc[r] = "load"
    /\ rpc' = [rpc EXCEPT ![r] = "test"]
    /\ obj' = [obj EXCEPT ![r] = m_object]
    /\ UNCHANGED <<m_object, m_storage, ctorPc, ctorCalls, dtorCalls, retState, lateEntry, tpc, torn>>
    /\ UNCHANGED notStorageVars

\* } while (obj != reinterpret_cast<T*>(&m_storage)); return *obj;
ReaderTest(r) ==
    /\ rpc[r] = "test"
    /\ IF obj[r] # StorageAddr
         THEN /\ rpc' = [rpc EXCEPT ![r] = "load"]
              /\ UNCHANGED retState
         ELSE /\ rpc' = [rpc EXCEPT ![r] = "returned"]
              /\ retState' = [retState EXCEPT ![r] = m_storage]
    /\ UNCHANGED <<m_object, m_storage, ctorPc, ctorCalls, dtorCalls, obj, lateEntry, tpc, torn>>
    /\ UNCHANGED notStorageVars

\* A teardown that ignores the result of the compare-and-swap.
TeardownCAS_IgnoreResult(t) ==
    /\ ctorPc = "done"
    /\ tpc[t] = "idle"
    /\ tpc' = [tpc EXCEPT ![t] = "destroy"]
    /\ IF m_object = StorageAddr
         THEN m_object' = Null /\ torn' = TRUE
         ELSE UNCHANGED <<m_object, torn>>
    /\ UNCHANGED <<m_storage, ctorPc, ctorCalls, dtorCalls, rpc, obj, retState, lateEntry>>
    /\ UNCHANGED notStorageVars

\* A teardown that only compares and never exchanges.
TeardownCAS_CompareOnly(t) ==
    /\ ctorPc = "done"
    /\ tpc[t] = "idle"
    /\ IF m_object = StorageAddr
         THEN tpc' = [tpc EXCEPT ![t] = "destroy"] /\ torn' = TRUE
         ELSE tpc' = [tpc EXCEPT ![t] = "skipped"] /\ UNCHANGED torn
    /\ UNCHANGED <<m_object, m_storage, ctorPc, ctorCalls, dtorCalls, rpc, obj, retState, lateEntry>>
    /\ UNCHANGED notStorageVars

\* ~static_storage(): expected = &m_storage;
\*                    if (m_object.compare_exchange_strong(expected, nullptr))
\* A destructor runs only on an object whose constructor has returned.
TeardownCAS(t) ==
    /\ ctorPc = "done"
    /\ tpc[t] = "idle"
    /\ IF m_object = StorageAddr
         THEN /\ m_object' = Null
              /\ tpc' = [tpc EXCEPT ![t] = "destroy"]
              /\ torn' = TRUE
         ELSE /\ tpc' = [tpc EXCEPT ![t] = "skipped"]
              /\ UNCHANGED <<m_object, torn>>
    /\ UNCHANGED <<m_storage, ctorPc, ctorCalls, dtorCalls, rpc, obj, retState, lateEntry>>
    /\ UNCHANGED notStorageVars

\* Destructor()(reinterpret_cast<T*>(&m_storage)) with default_destruct: ptr->~T()
TeardownDestroy(t) ==
    /\ tpc[t] = "destroy"
    /\ tpc' = [tpc EXCEPT ![t] = "destroyed"]
    /\ m_storage' = "destroyed"
    /\ dtorCalls' = dtorCalls + 1
    /\ UNCHANGED <<m_object, ctorPc, ctorCalls, rpc, obj, retState, lateEntry, torn>>
    /\ UNCHANGED notStorageVars

StorageNext ==
    \/ CtorPlacementNew
    \/ CtorConstructed
    \/ CtorStore
    \/ \E r \in Readers : ReaderEnter(r)
    \/ \E r \in Readers : ReaderLoad(r)
    \/ \E r \in Readers : ReaderTest(r)
    \/ \E t \in Teardowns : TeardownCAS(t)
    \/ \E t \in Teardowns : TeardownDestroy(t)

-----------------------------------------------------------------------------
(* EMStudio::AnimGraphOptions                                               *)

MaxNotes == 3

s_graphAnimationOptionName == "useGraphAnimation"
s_showFPSOptionName == "showFPS"
OtherKey == "windowGeometry"
Keys == {s_graphAnimationOptionName, s_showFPSOptionName, OtherKey}

\* QVariant values: the invalid variant QSettings::value returns for a key
\* that is not in the store, a bool, a string.
InvalidVariant == [type |-> "invalid", val |-> ""]
BoolVariant(b) == [type |-> "bool", val |-> b]
StringVariant(str) == [type |-> "string", val |-> str]
StoredVariants ==
    {InvalidVariant, BoolVariant(TRUE), BoolVariant(FALSE),
     StringVariant("false"), StringVariant("1")}

\* QVariant::isNull() as Load uses it: true of the invalid variant.
isNull(v) == v.type = "invalid"

\* QVariant::toBool(): a bool is itself; a string is true unless it is
\* empty, "0" or "false"; the invalid variant is false.
toBool(v) ==
    CASE v.type = "bool" -> v.val
      [] v.type = "string" -> v.val \notin {"", "0", "false"}
      [] OTHER -> FALSE

\* QSettings::setValue(key, value) and QSettings::value(key): the map, and
\* the accesses made during the current call.
setValue(q, key, v) ==
    [store |-> [q.store EXCEPT ![key] = v],
     log |-> Append(q.log, <<"setValue", key>>)]
value(q, key) == q.store[key]
Accessed(q, key) == [q EXCEPT !.log = Append(@, <<"value", key>>)]
NewCall(q) == [q EXCEPT !.log = <<>>]

NoObject == [none |-> TRUE]

\* AnimGraphOptions::AnimGraphOptions(): m_graphAnimation(true), m_showFPS(false)
AnimGraphOptions ==
    [m_graphAnimation |-> TRUE, m_showFPS |-> FALSE]

\* PluginOptionsNotificationsBus::Event(id, &Events::OnOptionChanged, optionName)
BusEvent(b, id, optionName) == Append(b, [id |-> id, optionChanged |-> optionName])

OnGraphAnimationChangedCallback(b) ==
    BusEvent(b, s_graphAnimationOptionName, s_graphAnimationOptionName)

OnShowFPSChangedCallback(b) ==
    BusEvent(b, s_showFPSOptionName, s_showFPSOptionName)

\* w is the object the setter is called on together with the bus:
\* [o |-> the object, bus |-> the events sent so far].
SetGraphAnimation(w, graphAnimation) ==
    IF graphAnimation # w.o.m_graphAnimation
      THEN [o |-> [w.o EXCEPT !.m_graphAnimation = graphAnimation],
            bus |-> OnGraphAnimationChangedCallback(w.bus)]
      ELSE w

\* A setter that notifies on every call, changed or not.
SetShowFPS_AlwaysNotify(w, showFPS) ==
    [o |-> [w.o EXCEPT !.m_showFPS = showFPS],
     bus |-> OnShowFPSChangedCallback(w.bus)]

SetShowFPS(w, showFPS) ==
    IF showFPS # w.o.m_showFPS
      THEN [o |-> [w.o EXCEPT !.m_showFPS = showFPS],
            bus |-> OnShowFPSChangedCallback(w.bus)]
      ELSE w

\* An assignment that calls the two setters in the opposite order.
OperatorAssign_ShowFPSFirst(w, other) ==
    SetGraphAnimation(SetShowFPS(w, other.m_showFPS), other.m_graphAnimation)

\* AnimGraphOptions::operator=(other): the two setters, in this order.
OperatorAssign(w, other) ==
    SetShowFPS(SetGraphAnimation(w, other.m_graphAnimation), other.m_showFPS)

\* A Save that writes each value under the other option's key.
Save_KeysExchanged(o, q) ==
    setValue(setValue(q, s_showFPSOptionName, BoolVariant(o.m_graphAnimation)),
             s_graphAnimationOptionName, BoolVariant(o.m_showFPS))

\* AnimGraphOptions::Save(settings)
Save(o, q) ==
    setValue(setValue(q, s_graphAnimationOptionName, BoolVariant(o.m_graphAnimation)),
             s_showFPSOptionName, BoolVariant(o.m_showFPS))

\* A Load that fills the new object through the setters.
Load_ThroughSetters(q, b) ==
    LET v1 == value(q, s_graphAnimationOptionName)
        v2 == value(q, s_showFPSOptionName)
        w0 == [o |-> AnimGraphOptions, bus |-> b]
        w1 == IF ~isNull(v1) THEN SetGraphAnimation(w0, toBool(v1)) ELSE w0
        w2 == IF ~isNull(v2) THEN SetShowFPS(w1, toBool(v2)) ELSE w1
    IN  [o |-> w2.o, bus |-> w2.bus,
         settings |-> Accessed(Accessed(q, s_graphAnimationOptionName), s_showFPSOptionName)]

\* AnimGraphOptions::Load(settings): the returned object, the bus and the
\* store after the call.
Load(q, b) ==
    LET o0 == AnimGraphOptions
        v1 == value(q, s_graphAnimationOptionName)
        q1 == Accessed(q, s_graphAnimationOptionName)
        o1 == IF ~isNull(v1) THEN [o0 EXCEPT !.m_graphAnimation = toBool(v1)] ELSE o0
        v2 == value(q1, s_showFPSOptionName)
        q2 == Accessed(q1, s_showFPSOptionName)
        o2 == IF ~isNull(v2) THEN [o1 EXCEPT !.m_showFPS = toBool(v2)] ELSE o1
    IN  [o |-> o2, bus |-> b, settings |-> q2]

CallRecord(op, arg) ==
    [op |-> op, arg |-> arg, preOptions |-> options, preBus |-> bus,
     preStore |-> settings.store]

OptionsInit ==
    /\ options = AnimGraphOptions
    /\ loaded = NoObject
    /\ bus = <<>>
    /\ \E ga, fps \in StoredVariants :
          settings = [store |-> [k \in Keys |->
                                    IF k = s_graphAnimationOptionName THEN ga
                                    ELSE IF k = s_showFPSOptionName THEN fps
                                    ELSE StringVariant("geometry")],
                      log |-> <<>>]
    /\ lastSaved = NoObject
    /\ lastCall = [op |-> "AnimGraphOptions", arg |-> NoObject,
                   preOptions |-> NoObject, preBus |-> <<>>, preStore |-> NoObject]

\* The state of this fragment while another fragment's specification runs.
OptionsIdle ==
    /\ options = AnimGraphOptions
    /\ loaded = NoObject
    /\ bus = <<>>
    /\ settings = [store |-> [k \in Keys |-> InvalidVariant], log |-> <<>>]
    /\ lastSaved = NoObject
    /\ lastCall = [op |-> "AnimGraphOptions", arg |-> NoObject,
                   preOptions |-> NoObject, preBus |-> <<>>, preStore |-> NoObject]

CallSetGraphAnimation ==
    \E graphAnimation \in BOOLEAN :
        /\ Len(bus) < MaxNotes
        /\ LET w == SetGraphAnimation([o |-> options, bus |-> bus], graphAnimation)
           IN  options' = w.o /\ bus' = w.bus
        /\ lastCall' = CallRecord("SetGraphAnimation", graphAnimation)
        /\ UNCHANGED <<loaded, settings, lastSaved>>
        /\ UNCHANGED notOptionsVars

CallSetShowFPS ==
    \E showFPS \in BOOLEAN :
        /\ Len(bus) < MaxNotes
        /\ LET w == SetShowFPS([o |-> options, bus |-> bus], showFPS)
           IN  options' = w.o /\ bus' = w.bus
        /\ lastCall' = CallRecord("SetShowFPS", showFPS)
        /\ UNCHANGED <<loaded, settings, lastSaved>>
        /\ UNCHANGED notOptionsVars

\* options = <the object Load returned>
\* other is the object Load returned, or options itself (self-assignment).
CallOperatorAssign ==
    \E other \in {loaded, options} \ {NoObject} :
        /\ Len(bus) + 2 <= MaxNotes
        /\ LET w == OperatorAssign([o |-> options, bus |-> bus], other)
           IN  options' = w.o /\ bus' = w.bus
        /\ lastCall' = CallRecord("operator=", other)
        /\ UNCHANGED <<loaded, settings, lastSaved>>
        /\ UNCHANGED notOptionsVars

CallSave ==
    /\ settings' = Save(options, NewCall(settings))
    /\ lastSaved' = options
    /\ lastCall' = CallRecord("Save", NoObject)
    /\ UNCHANGED <<options, loaded, bus>>
    /\ UNCHANGED notOptionsVars

CallLoad ==
    /\ LET r == Load(NewCall(settings), bus)
       IN  loaded' = r.o /\ bus' = r.bus /\ settings' = r.settings
    /\ lastCall' = CallRecord("Load", NoObject)
    /\ UNCHANGED <<options, lastSaved>>
    /\ UNCHANGED notOptionsVars

OptionsNext ==
    \/ CallSetGraphAnimation
    \/ CallSetShowFPS
    \/ CallOperatorAssign
    \/ CallSave
    \/ CallLoad

-----------------------------------------------------------------------------
(* AZ::PackedVector3<TYPE>                                                  *)

MaxInt == 1

\* A float is sign * mant * 2^exp with mant < 2^24; the canonical form has an
\* odd mant, and zero is [sign |-> 1, mant |-> 0, exp |-> 0].
MantBits == 24
INT32_MAX == 2147483647
INT32_MIN == -INT32_MAX - 1

RECURSIVE Normalize(_, _, _)
Normalize(sign, mant, exp) ==
    IF mant = 0 THEN [sign |-> 1, mant |-> 0, exp |-> 0]
    ELSE IF mant % 2 = 0 THEN Normalize(sign, mant \div 2, exp + 1)
    ELSE [sign |-> sign, mant |-> mant, exp |-> exp]

Abs(n) == IF n < 0 THEN -n ELSE n
Sign(n) == IF n < 0 THEN -1 ELSE 1

\* The floats the source vector's components are drawn from: the multiples
\* of 1/2 up to MaxInt + 1/2, and values at the edges of float's 24-bit
\* mantissa and of int32's range.
SmallFloats == {Normalize(Sign(n), Abs(n), -1) : n \in (-(2 * MaxInt + 1))..(2 * MaxInt + 1)}
EdgeFloats ==
    {[sign |-> 1, mant |-> 2^24 - 1, exp |-> 0],     \* 16777215
     [sign |-> 1, mant |-> 2^24 - 1, exp |-> 7],     \* 2147483520, the largest float below 2^31
     [sign |-> 1, mant |-> 1, exp |-> 31],           \* 2^31
     [sign |-> -1, mant |-> 1, exp |-> 31],          \* -2^31
     [sign |-> -1, mant |-> 2^23 + 1, exp |-> 8]}    \* -(2^31 + 256)
ComponentValues == SmallFloats \cup EdgeFloats
Types == {"float", "int32"}

Uninitialized == [uninitialized |-> TRUE]

\* float -> int32 (static_cast semantics of the member initializers): the
\* fraction is discarded; a value outside int32's range is undefined
\* behaviour, here any of the results the usual targets produce.
FloatToInt32(f) ==
    IF f.exp < 0
      THEN {IF -f.exp >= MantBits THEN 0 ELSE f.sign * (f.mant \div 2^(-f.exp))}
    ELSE IF f.exp <= 30 /\ f.mant \div 2 < 2^(30 - f.exp)
      THEN {f.sign * f.mant * 2^f.exp}
    ELSE IF f.sign = -1 /\ f.mant = 1 /\ f.exp = 31
      THEN {INT32_MIN}
    ELSE {INT32_MIN, INT32_MAX, 0}

\* The least k with a \div 2^k < 2^24.
RECURSIVE Shift(_)
Shift(a) == IF a < 2^MantBits THEN 0 ELSE 1 + Shift(a \div 2)

\* int32 -> float: round to nearest, ties to even, on a 24-bit mantissa.
Int32ToFloat(n) ==
    IF n = INT32_MIN THEN [sign |-> -1, mant |-> 1, exp |-> 31]
    ELSE LET a == Abs(n)
             k == Shift(a)
             q == a \div 2^k
             r == a % 2^k
             up == k > 0 /\ (2 * r > 2^k \/ (2 * r = 2^k /\ q % 2 = 1))
         IN  Normalize(Sign(n), IF up THEN q + 1 ELSE q, k)

\* AZ::Vector3::GetX() (a float) converted to TYPE, and TYPE converted to the
\* float AZ::Vector3's constructor takes.
ToTYPE(T, f) == IF T = "float" THEN {f} ELSE FloatToInt32(f)
ToFloat(T, t) == IF T = "float" THEN t ELSE Int32ToFloat(t)

\* A constructor that initializes m_y from z and m_z from y.
PackedVector3_YZExchanged(T, rhs) ==
    {[m_x |-> x, m_y |-> y, m_z |-> z] :
        x \in ToTYPE(T, rhs.x), y \in ToTYPE(T, rhs.z), z \in ToTYPE(T, rhs.y)}

\* PackedVector3(const AZ::Vector3& rhs): m_x(rhs.GetX()), m_y(rhs.GetY()), m_z(rhs.GetZ())
\* The set of objects the constructor can produce.
PackedVector3(T, rhs) ==
    {[m_x |-> x, m_y |-> y, m_z |-> z] :
        x \in ToTYPE(T, rhs.x), y \in ToTYPE(T, rhs.y), z \in ToTYPE(T, rhs.z)}

\* operator AZ::Vector3() const: AZ::Vector3(m_x, m_y, m_z)
OperatorVector3(T, p) ==
    [x |-> ToFloat(T, p.m_x), y |-> ToFloat(T, p.m_y), z |-> ToFloat(T, p.m_z)]

GetX(p) == p.m_x
GetY(p) == p.m_y
GetZ(p) == p.m_z

VecInit ==
    /\ TYPE \in Types
    /\ vec \in [x : ComponentValues, y : ComponentValues, z : ComponentValues]
    /\ packed = Uninitialized
    /\ back = Uninitialized
    /\ got = Uninitialized

\* The state of this fragment while another fragment's specification runs.
VecIdle ==
    /\ TYPE = "float"
    /\ vec = [x |-> Normalize(1, 0, 0), y |-> Normalize(1, 0, 0), z |-> Normalize(1, 0, 0)]
    /\ packed = Uninitialized
    /\ back = Uninitialized
    /\ got = Uninitialized

ConstructFromVector3 ==
    /\ packed = Uninitialized
    /\ packed' \in PackedVector3(TYPE, vec)
    /\ UNCHANGED <<TYPE, vec, back, got>>
    /\ UNCHANGED notVecVars

ConvertToVector3 ==
    /\ packed # Uninitialized
    /\ back' = OperatorVector3(TYPE, packed)
    /\ UNCHANGED <<TYPE, vec, packed, got>>
    /\ UNCHANGED notVecVars

CallGetters ==
    /\ packed # Uninitialized
    /\ got' = [x |-> GetX(packed), y |-> GetY(packed), z |-> GetZ(packed)]
    /\ UNCHANGED <<TYPE, vec, packed, back>>
    /\ UNCHANGED notVecVars

VecNext ==
    \/ ConstructFromVector3
    \/ ConvertToVector3
    \/ CallGetters

-----------------------------------------------------------------------------
(* ScriptCanvas::RuntimeAssetHandler                                        *)

StreamLen == 2

NoContext == "nullptr"
Context == "AZ::SerializeContext"
Contexts == {NoContext, Context}

\* The assets a caller can pass: the RuntimeAsset and an asset of another type.
Assets == {"runtimeAsset", "otherAsset"}
\* asset.GetAs<RuntimeAsset>() is non-null
IsRuntimeAsset(a) == a = "runtimeAsset"

GraphData == {"graphA", "graphB"}
PartialData == "partial"
StreamContents == GraphData \cup {"corrupt"}

NotCalled == [called |-> FALSE, flag |-> FALSE]
Called(flag) == [called |-> TRUE, flag |-> flag]

\* What the code the handler delegates to does in one call: the flag
\* LoadObjectFromStreamInPlace / WriteClass returns, the data a failed load
\* leaves behind, the position the stream ends at, and, for the load by
\* path, whether FileIOBase::GetInstance() is non-null and the file opens.
\* Each call draws only the fields it reads.
StreamLoadOutcomes ==
    [success : BOOLEAN, failData : GraphData \cup {PartialData}, endPos : 0..StreamLen,
     fileIO : {TRUE}, isOpen : {TRUE}, fileContent : {"none"}]
PathLoadOutcomes ==
    [success : BOOLEAN, failData : GraphData \cup {PartialData}, endPos : {0},
     fileIO : BOOLEAN, isOpen : BOOLEAN, fileContent : StreamContents]
SaveOutcomes ==
    [success : BOOLEAN, failData : {PartialData}, endPos : 0..StreamLen,
     fileIO : {TRUE}, isOpen : {TRUE}, fileContent : {"none"}]

\* RuntimeAssetHandler::SetSerializeContext(context); appContext is what
\* ComponentApplicationBus::GetSerializeContext answers.
SetSerializeContext(context, appContext) ==
    IF context = NoContext THEN appContext ELSE context

\* stream->Seek(0, ST_SEEK_BEGIN); LoadObjectFromStreamInPlace(*stream,
\* runtimeAsset->m_runtimeData, m_serializeContext, filter): succeeds only on
\* a stream that holds a graph.
SeekAndLoadInPlace(st, out) ==
    LET loadSuccess == out.success /\ st.content \in GraphData
    IN  [ret |-> loadSuccess,
         stream |-> [st EXCEPT !.pos = IF loadSuccess THEN StreamLen ELSE out.endPos,
                               !.ops = <<"Seek", "Read">>],
         data |-> IF loadSuccess THEN st.content ELSE out.failData,
         asserted |-> FALSE,
         underlying |-> Called(loadSuccess)]

\* A stream load that does not test m_serializeContext.
LoadAssetData_NoContextTest(ctx, a, data, st, out) ==
    IF IsRuntimeAsset(a)
      THEN SeekAndLoadInPlace(st, out)
      ELSE [ret |-> FALSE, stream |-> st, data |-> data, asserted |-> TRUE,
            underlying |-> NotCalled]

\* bool LoadAssetData(asset, AZ::IO::GenericStream* stream, assetLoadFilterCB)
\* data is the data the asset holds; the result carries the returned flag,
\* the stream and the data after the call, whether AZ_Assert fired and the
\* flag of the delegated call.
LoadAssetData(ctx, a, data, st, out) ==
    IF IsRuntimeAsset(a) /\ ctx # NoContext
      THEN SeekAndLoadInPlace(st, out)
      ELSE [ret |-> FALSE, stream |-> st, data |-> data,
            asserted |-> ~IsRuntimeAsset(a),
            underlying |-> NotCalled]

\* AZ::IO::FileIOStream stream(assetPath, OpenMode::ModeRead)
FileIOStream(out) == [content |-> out.fileContent, pos |-> 0, ops |-> <<>>]
NoStream == [content |-> "none", pos |-> 0, ops |-> <<>>]

\* bool LoadAssetData(asset, const char* assetPath, assetLoadFilterCB)
LoadAssetDataPath(ctx, a, data, out) ==
    IF out.fileIO /\ out.isOpen
      THEN LoadAssetData(ctx, a, data, FileIOStream(out), out)
      ELSE [ret |-> FALSE, stream |-> NoStream, data |-> data, asserted |-> FALSE,
            underlying |-> NotCalled]

\* bool SaveAssetData(asset, AZ::IO::GenericStream* stream): ObjectStream::Create,
\* WriteClass(&runtimeAsset->m_runtimeData), Finalize.
SaveAssetData(ctx, a, data, st, out) ==
    IF IsRuntimeAsset(a) /\ ctx # NoContext
      THEN LET graphSaved == out.success
           IN  [ret |-> graphSaved,
                stream |-> [content |-> IF graphSaved THEN data ELSE "corrupt",
                            pos |-> IF graphSaved THEN StreamLen ELSE out.endPos,
                            ops |-> <<"Write">>],
                data |-> data,
                asserted |-> FALSE,
                underlying |-> Called(graphSaved)]
      ELSE [ret |-> FALSE, stream |-> st, data |-> data,
            asserted |-> ~IsRuntimeAsset(a),
            underlying |-> NotCalled]

AssetCallRecord(op, a, out, r) ==
    [op |-> op, asset |-> a, context |-> m_serializeContext,
     fileIO |-> out.fileIO, isOpen |-> out.isOpen,
     preData |-> assetData, preStream |-> stream,
     ret |-> r.ret, ops |-> r.stream.ops, asserted |-> r.asserted,
     underlying |-> r.underlying]

NoAssetCall ==
    [op |-> "RuntimeAssetHandler", asset |-> "none", context |-> NoContext,
     fileIO |-> FALSE, isOpen |-> FALSE,
     preData |-> [a \in Assets |-> "none"], preStream |-> NoStream,
     ret |-> FALSE, ops |-> <<>>, asserted |-> FALSE, underlying |-> NotCalled]

\* RuntimeAssetHandler::RuntimeAssetHandler(context): SetSerializeContext(context)
AssetInit ==
    /\ \E context, appContext \in Contexts :
          m_serializeContext = SetSerializeContext(context, appContext)
    /\ \E d \in GraphData :
          assetData = [a \in Assets |-> IF IsRuntimeAsset(a) THEN d ELSE "opaque"]
    /\ \E c \in StreamContents, p \in 0..StreamLen :
          stream = [content |-> c, pos |-> p, ops |-> <<>>]
    /\ assetCall = NoAssetCall

\* The state of this fragment while another fragment's specification runs.
AssetIdle ==
    /\ m_serializeContext = NoContext
    /\ assetData = [a \in Assets |-> "none"]
    /\ stream = NoStream
    /\ assetCall = NoAssetCall

CallSetSerializeContext ==
    \E context, appContext \in Contexts :
        /\ m_serializeContext' = SetSerializeContext(context, appContext)
        /\ UNCHANGED <<assetData, stream, assetCall>>
        /\ UNCHANGED notAssetVars

CallLoadAssetDataStream ==
    \E a \in Assets, out \in StreamLoadOutcomes :
        LET r == LoadAssetData(m_serializeContext, a, assetData[a],
                               [stream EXCEPT !.ops = <<>>], out)
        IN  /\ stream' = r.stream
            /\ assetData' = [assetData EXCEPT ![a] = r.data]
            /\ assetCall' = AssetCallRecord("LoadAssetData(stream)", a, out, r)
            /\ UNCHANGED m_serializeContext
            /\ UNCHANGED notAssetVars

\* The stream of the load by path is a local of the call.
CallLoadAssetDataPath ==
    \E a \in Assets, out \in PathLoadOutcomes :
        LET r == LoadAssetDataPath(m_serializeContext, a, assetData[a], out)
        IN  /\ assetData' = [assetData EXCEPT ![a] = r.data]
            /\ assetCall' = AssetCallRecord("LoadAssetData(path)", a, out, r)
            /\ UNCHANGED <<m_serializeContext, stream>>
            /\ UNCHANGED notAssetVars

CallSaveAssetData ==
    \E a \in Assets, out \in SaveOutcomes :
        LET r == SaveAssetData(m_serializeContext, a, assetData[a],
                               [stream EXCEPT !.ops = <<>>], out)
        IN  /\ stream' = r.stream
            /\ assetData' = [assetData EXCEPT ![a] = r.data]
            /\ assetCall' = AssetCallRecord("SaveAssetData", a, out, r)
            /\ UNCHANGED m_serializeContext
            /\ UNCHANGED notAssetVars

AssetNext ==
    \/ CallSetSerializeContext
    \/ CallLoadAssetDataStream
    \/ CallLoadAssetDataPath
    \/ CallSaveAssetData

-----------------------------------------------------------------------------
(* Specifications: one per fragment.                                       *)

Init == StorageInit /\ OptionsIdle /\ VecIdle /\ AssetIdle
Next == StorageNext
Spec == Init /\ [][Next]_vars

InitOptions == OptionsInit /\ StorageIdle /\ VecIdle /\ AssetIdle
SpecOptions == InitOptions /\ [][OptionsNext]_vars

InitVec == VecInit /\ StorageIdle /\ OptionsIdle /\ AssetIdle
SpecVec == InitVec /\ [][VecNext]_vars

InitAsset == AssetInit /\ StorageIdle /\ OptionsIdle /\ VecIdle
SpecAsset == InitAsset /\ [][AssetNext]_vars

-----------------------------------------------------------------------------
(* Properties of static_storage, checked under Spec.                        *)

\* C1: whatever the interleaving of the threads inside operator T&, T's
\* constructor has run exactly once as soon as static_storage's constructor
\* has started, and never a second time: operator T& constructs nothing.
C1_ConstructedExactlyOnce ==
    ctorCalls = (IF ctorPc = "start" THEN 0 ELSE 1)

\* Every thread has come back from its first access and T was constructed once.
C1_Witness ==
    /\ \A r \in Readers : rpc[r] = "returned"
    /\ ctorCalls = 1

\* C2: a reader only ever loads nullptr or the address of storage that holds
\* a fully constructed T, and no reader returns while the storage is still
\* raw or under construction.
C2_ReaderSeesNullOrPublished ==
    \A r \in Readers :
        /\ rpc[r] \in {"test", "returned"} =>
              /\ obj[r] \in {Null, StorageAddr}
              /\ obj[r] = StorageAddr => m_storage \notin {"raw", "constructing"}
        /\ rpc[r] = "returned" => retState[r] \notin {"raw", "constructing"}

\* C3: with default_destruct, T's destructor runs at most once, exactly once
\* when every teardown attempt has finished, and only in the attempt whose
\* compare-and-swap succeeded; the other attempts skip the cleanup.
C3_DestroyedExactlyOnce ==
    /\ dtorCalls <= 1
    /\ Cardinality({t \in Teardowns : tpc[t] \in {"destroy", "destroyed"}}) <= 1
    /\ dtorCalls = Cardinality({t \in Teardowns : tpc[t] = "destroyed"})
    /\ (\A t \in Teardowns : tpc[t] \in {"destroyed", "skipped"}) => dtorCalls = 1
    /\ \A t \in Teardowns : tpc[t] = "skipped" => torn

\* Every teardown attempt finished: one destroyed, the others skipped.
C3_Witness ==
    /\ \A t \in Teardowns : tpc[t] \in {"destroyed", "skipped"}
    /\ \E t \in Teardowns : tpc[t] = "skipped"
    /\ dtorCalls = 1

\* C4 (safety half): while static_storage's constructor has not yet stored
\* the pointer, no reader has returned from operator T&.
C4_NoReturnBeforePublish ==
    \A r \in Readers : rpc[r] = "returned" => ctorPc = "done"

\* C10: once a teardown has won its compare-and-swap the pointer stays null,
\* and a call of operator T& that started after that point never returns.
C10_TornNeverRepublished ==
    /\ torn => m_object = Null
    /\ \A r \in Readers : lateEntry[r] => rpc[r] # "returned"

\* A reader that loaded the pointer before the compare-and-swap holds a
\* reference to an object the teardown has destroyed, while a reader that
\* started after the compare-and-swap is spinning on nullptr.
C10_Witness ==
    /\ m_storage = "destroyed"
    /\ \E r \in Readers : rpc[r] = "returned" /\ ~lateEntry[r]
    /\ \E r \in Readers : lateEntry[r] /\ rpc[r] = "test" /\ obj[r] = Null

\* The same threads with no teardown, each thread scheduled weakly fairly:
\* the setting of the liveness half of C4.
LiveNext ==
    \/ CtorPlacementNew
    \/ CtorConstructed
    \/ CtorStore
    \/ \E r \in Readers : ReaderEnter(r)
    \/ \E r \in Readers : ReaderLoad(r)
    \/ \E r \in Readers : ReaderTest(r)

LiveSpec ==
    /\ Init
    /\ [][LiveNext]_vars
    /\ WF_vars(CtorPlacementNew \/ CtorConstructed \/ CtorStore)
    /\ \A r \in Readers : WF_vars(ReaderLoad(r) \/ ReaderTest(r))

\* C4 (liveness half, under LiveSpec): a thread inside operator T& eventually
\* returns once the constructor has published the pointer.
C4_ReadersEventuallyReturn ==
    \A r \in Readers : (rpc[r] # "idle") ~> (rpc[r] = "returned")

-----------------------------------------------------------------------------
(* Properties of AnimGraphOptions, checked under SpecOptions.               *)

Event(optionName) == [id |-> optionName, optionChanged |-> optionName]

\* C5: a setter called with the current value changes neither field and
\* sends nothing; called with another value it updates its own field only
\* and sends exactly one OnOptionChanged event, carrying its own key.
C5_SettersNotifyOnChangeOnly ==
    /\ lastCall.op = "SetGraphAnimation" =>
          IF lastCall.arg = lastCall.preOptions.m_graphAnimation
            THEN options = lastCall.preOptions /\ bus = lastCall.preBus
            ELSE /\ options.m_graphAnimation = lastCall.arg
                 /\ options.m_showFPS = lastCall.preOptions.m_showFPS
                 /\ bus = lastCall.preBus \o <<Event("useGraphAnimation")>>
    /\ lastCall.op = "SetShowFPS" =>
          IF lastCall.arg = lastCall.preOptions.m_showFPS
            THEN options = lastCall.preOptions /\ bus = lastCall.preBus
            ELSE /\ options.m_showFPS = lastCall.arg
                 /\ options.m_graphAnimation = lastCall.preOptions.m_graphAnimation
                 /\ bus = lastCall.preBus \o <<Event("showFPS")>>

\* A SetShowFPS call with the current value, after an earlier change of each
\* option, has just returned.
C5_Witness ==
    /\ lastCall.op = "SetShowFPS"
    /\ lastCall.arg = lastCall.preOptions.m_showFPS
    /\ bus = <<Event("useGraphAnimation"), Event("showFPS")>>

\* C7: a Load that follows a Save returns the two values that were saved;
\* Save writes exactly the keys useGraphAnimation and showFPS and leaves the
\* other keys of the store alone; Load reads exactly those two keys and
\* writes none.
C7_SaveLoadRoundTrip ==
    /\ (lastCall.op = "Load" /\ lastSaved # NoObject) => loaded = lastSaved
    /\ lastCall.op = "Save" =>
          /\ settings.log = << <<"setValue", "useGraphAnimation">>,
                               <<"setValue", "showFPS">> >>
          /\ settings.store["useGraphAnimation"] = BoolVariant(options.m_graphAnimation)
          /\ settings.store["showFPS"] = BoolVariant(options.m_showFPS)
          /\ \A k \in Keys \ {"useGraphAnimation", "showFPS"} :
                settings.store[k] = lastCall.preStore[k]
    /\ lastCall.op = "Load" =>
          /\ settings.log = << <<"value", "useGraphAnimation">>,
                               <<"value", "showFPS">> >>
          /\ settings.store = lastCall.preStore

\* A Load has just returned values that were saved and differ from both
\* defaults.
C7_Witness ==
    /\ lastCall.op = "Load"
    /\ lastSaved = [m_graphAnimation |-> FALSE, m_showFPS |-> TRUE]
    /\ loaded = lastSaved

\* C9: a new object holds graphAnimation = true and showFPS = false; Load
\* leaves a field at its default when its key is absent from the store,
\* sets it from its own key alone when the key is present, and sends no
\* event.
C9_DefaultsAndIndependentLoad ==
    /\ lastCall.op = "AnimGraphOptions" =>
          options.m_graphAnimation = TRUE /\ options.m_showFPS = FALSE
    /\ lastCall.op = "Load" =>
          LET ga == lastCall.preStore["useGraphAnimation"]
              fps == lastCall.preStore["showFPS"]
          IN  /\ ga.type = "invalid" => loaded.m_graphAnimation = TRUE
              /\ fps.type = "invalid" => loaded.m_showFPS = FALSE
              /\ ga.type = "bool" => loaded.m_graphAnimation = ga.val
              /\ fps.type = "bool" => loaded.m_showFPS = fps.val
              /\ ga.type = "string" => loaded.m_graphAnimation = (ga.val = "1")
              /\ fps.type = "string" => loaded.m_showFPS = (fps.val = "1")
              /\ bus = lastCall.preBus

\* A Load from a store that lacks useGraphAnimation and holds showFPS = true.
C9_Witness ==
    /\ lastCall.op = "Load"
    /\ lastCall.preStore["useGraphAnimation"] = InvalidVariant
    /\ lastCall.preStore["showFPS"] = BoolVariant(TRUE)
    /\ loaded = [m_graphAnimation |-> TRUE, m_showFPS |-> TRUE]

-----------------------------------------------------------------------------
(* Properties of PackedVector3, checked under SpecVec.                      *)

\* f is a value of TYPE: any float for PackedVector3<float>; for
\* PackedVector3<int32_t> an integer between INT32_MIN and INT32_MAX.
IsValueOf(T, f) ==
    \/ T = "float"
    \/ f.mant = 0
    \/ f.exp >= 0 /\ f.exp <= 30 /\ f.mant <= INT32_MAX \div 2^f.exp
    \/ f.sign = -1 /\ f.mant = 1 /\ f.exp = 31

\* t, a value of TYPE, is the number f.
SameNumber(T, t, f) ==
    IF T = "float" THEN t = f
    ELSE IF t = INT32_MIN THEN f = [sign |-> -1, mant |-> 1, exp |-> 31]
    ELSE Normalize(Sign(t), Abs(t), 0) = f

\* C8: when every component of v is a value of TYPE, the PackedVector3
\* constructed from v converts back to a vector identical to v, and GetX,
\* GetY and GetZ return v's x, y and z.
C8_PackedVector3RoundTrip ==
    (IsValueOf(TYPE, vec.x) /\ IsValueOf(TYPE, vec.y) /\ IsValueOf(TYPE, vec.z)) =>
        /\ back # Uninitialized => back = vec
        /\ got # Uninitialized =>
              /\ SameNumber(TYPE, got.x, vec.x)
              /\ SameNumber(TYPE, got.y, vec.y)
              /\ SameNumber(TYPE, got.z, vec.z)

\* A PackedVector3<int32_t> built from (2147483520, -2^31, -1) has been
\* converted back and read.
C8_Witness ==
    /\ TYPE = "int32"
    /\ vec = [x |-> [sign |-> 1, mant |-> 2^24 - 1, exp |-> 7],
              y |-> [sign |-> -1, mant |-> 1, exp |-> 31],
              z |-> [sign |-> -1, mant |-> 1, exp |-> 0]]
    /\ back = vec
    /\ got = [x |-> 2147483520, y |-> INT32_MIN, z |-> -1]

\* Outside C8's precondition: a component with a fraction does not survive
\* PackedVector3<int32_t> (1.5 comes back as 1.0).
C8_FractionIsTruncated ==
    /\ TYPE = "int32"
    /\ vec.x = [sign |-> 1, mant |-> 3, exp |-> -1]
    /\ back # Uninitialized
    /\ back.x = [sign |-> 1, mant |-> 1, exp |-> 0]

-----------------------------------------------------------------------------
(* Properties of RuntimeAssetHandler, checked under SpecAsset.              *)

Refused == assetCall.context = NoContext \/ ~IsRuntimeAsset(assetCall.asset)
FileMissing == ~assetCall.fileIO \/ ~assetCall.isOpen

\* C6: without a serialize context, or with an asset that is no
\* RuntimeAsset, the stream load and the save return false, perform no
\* stream operation and leave the stream and the asset data as they were;
\* the load by path returns false when there is no file-IO instance or the
\* file does not open (and, as it delegates to the stream load, when that
\* one refuses); in every other case the flag returned is the flag of the
\* delegated LoadObjectFromStreamInPlace / WriteClass call.
C6_LoadSaveFailSoft ==
    /\ (assetCall.op \in {"LoadAssetData(stream)", "SaveAssetData"} /\ Refused) =>
          /\ assetCall.ret = FALSE
          /\ assetCall.ops = <<>>
          /\ ~assetCall.underlying.called
          /\ stream.content = assetCall.preStream.content
          /\ stream.pos = assetCall.preStream.pos
          /\ assetData = assetCall.preData
    /\ (assetCall.op = "LoadAssetData(path)" /\ (FileMissing \/ Refused)) =>
          /\ assetCall.ret = FALSE
          /\ assetCall.ops = <<>>
          /\ ~assetCall.underlying.called
          /\ assetData = assetCall.preData
    /\ (/\ assetCall.op \in {"LoadAssetData(stream)", "LoadAssetData(path)", "SaveAssetData"}
        /\ ~Refused
        /\ assetCall.op = "LoadAssetData(path)" => ~FileMissing) =>
          /\ assetCall.underlying.called
          /\ assetCall.ret = assetCall.underlying.flag

\* A stream load of the RuntimeAsset by a handler without a serialize
\* context has just been refused, on a stream an earlier save had written.
C6_Witness ==
    /\ assetCall.op = "LoadAssetData(stream)"
    /\ assetCall.context = NoContext
    /\ IsRuntimeAsset(assetCall.asset)
    /\ assetCall.ret = FALSE
    /\ stream.content = assetData["runtimeAsset"]
    /\ stream.pos = StreamLen

-----------------------------------------------------------------------------
(* AnimGraphOptions::operator=, checked under SpecOptions.                  *)

\* <<e>> when the two values differ, nothing otherwise.
EventIfDiffers(before, after, e) == IF before # after THEN <<e>> ELSE <<>>

\* C11: after a = b both fields of a equal b's and b is as it was (the
\* object Load returned is still the one that was assigned); the events
\* sent by the assignment are one per field that differed before it, the
\* useGraphAnimation event before the showFPS event, and none when the
\* values were equal.
C11_AssignGoesThroughSetters ==
    lastCall.op = "operator=" =>
        /\ options.m_graphAnimation = lastCall.arg.m_graphAnimation
        /\ options.m_showFPS = lastCall.arg.m_showFPS
        /\ loaded \in {NoObject, lastCall.arg} \/ lastCall.arg = lastCall.preOptions
        /\ bus = lastCall.preBus
                 \o EventIfDiffers(lastCall.preOptions.m_graphAnimation,
                                   lastCall.arg.m_graphAnimation, Event("useGraphAnimation"))
                 \o EventIfDiffers(lastCall.preOptions.m_showFPS,
                                   lastCall.arg.m_showFPS, Event("showFPS"))
        /\ lastCall.arg = lastCall.preOptions => bus = lastCall.preBus

\* An assignment of a loaded object that differed in both fields has sent
\* the two events, useGraphAnimation first.
C11_Witness ==
    /\ lastCall.op = "operator="
    /\ lastCall.preOptions = [m_graphAnimation |-> TRUE, m_showFPS |-> FALSE]
    /\ lastCall.arg = [m_graphAnimation |-> FALSE, m_showFPS |-> TRUE]
    /\ loaded = lastCall.arg
    /\ options = lastCall.arg
    /\ bus = lastCall.preBus \o <<Event("useGraphAnimation"), Event("showFPS")>>

====
